---- MODULE Spec2Model ----
(***************************************************************************)
(* State-machine model of proj2_nps.py: the JSON file cache (open_cache,   *)
(* save_cache, CACHE), the four caching fetchers (build_state_url_dict,    *)
(* get_site_instance, get_sites_for_state, get_nearby_places), the place   *)
(* formatter nearby_places_info and the interactive loop under __main__.   *)
(*                                                                         *)
(* A process is one run of the Python interpreter on the module.  It loads *)
(* CACHE once at import and then either runs the __main__ loop or is used  *)
(* as an imported module whose functions a caller invokes in any order.    *)
(* Processes share only the cache file.  A step of a process runs up to    *)
(* its next operation on that file, so save_cache is two steps: the        *)
(* open(...,"w") that truncates, and the buffered write flushed by close.  *)
(* Strings the user types are sequences of one-character strings, so that  *)
(* lower(), isnumeric() and int() are computed and not assumed.            *)
(* nearby_places_info and the conversions between a NationalSite and its   *)
(* attribute mapping are also checked alone, each on every input of a      *)
(* bounded set (SpecFormat, SpecRecord).                                   *)
(***************************************************************************)
EXTENDS Integers, Sequences, FiniteSets, TLC

\* ---------------------------------------------------------------- bounds

\* Longest list of entries a state page shows.
MaxSites == 2

\* Calls of the module's functions in a run (calls of the interactive loop
\* included).
MaxCalls == 3

\* Calls two processes that share the cache file make between them.
MaxSharedCalls == 2

Procs == {"p1", "p2"}

\* ------------------------------------------------------- Python strings

Digits == <<"0", "1", "2", "3", "4", "5", "6", "7", "8", "9">>

RECURSIVE DigitValue(_, _)
DigitValue(c, i) ==
    IF i > Len(Digits) THEN -1
    ELSE IF Digits[i] = c THEN i - 1 ELSE DigitValue(c, i + 1)

\* str.isdecimal() of one character.
IsDigit(c) == DigitValue(c, 1) >= 0

\* Characters that are numeric without being decimal digits (vulgar
\* fractions, superscripts): str.isnumeric() accepts them, int() does not.
OtherNumerics == {"½", "²"}

\* str.isnumeric(): non-empty and every character numeric.
IsNumeric(s) ==
    /\ Len(s) > 0
    /\ \A i \in 1..Len(s) : IsDigit(s[i]) \/ s[i] \in OtherNumerics

RECURSIVE DecimalValue(_, _)
DecimalValue(s, n) ==
    IF n = 0 THEN 0 ELSE 10 * DecimalValue(s, n - 1) + DigitValue(s[n], 1)

\* int(s) for a string isnumeric() accepted: ValueError unless all decimal.
PyInt(s) ==
    IF \A i \in 1..Len(s) : IsDigit(s[i])
    THEN [ok |-> TRUE, val |-> DecimalValue(s, Len(s))]
    ELSE [ok |-> FALSE, val |-> -1]

LowerChar(c) ==
    CASE c = "A" -> "a" [] c = "B" -> "b" [] c = "C" -> "c" [] c = "E" -> "e"
      [] c = "H" -> "h" [] c = "I" -> "i" [] c = "K" -> "k" [] c = "M" -> "m"
      [] c = "O" -> "o" [] c = "T" -> "t" [] c = "X" -> "x"
      [] OTHER -> c

\* str.lower()
Lower(s) == [i \in 1..Len(s) |-> LowerChar(s[i])]

RECURSIVE LStrip(_)
LStrip(s) == IF Len(s) > 0 /\ Head(s) = " " THEN LStrip(Tail(s)) ELSE s

RECURSIVE RStrip(_)
RStrip(s) ==
    IF Len(s) > 0 /\ s[Len(s)] = " "
    THEN RStrip(SubSeq(s, 1, Len(s) - 1))
    ELSE s

\* str.strip() on a character sequence.
Strip(s) == RStrip(LStrip(s))

\* str.strip() on the page texts of the model, which are TLA+ strings.
StripText(t) ==
    CASE t = " 49931 " -> "49931"
      [] t = "49931 " -> "49931"
      [] t = " 49913" -> "49913"
      [] t = " Houghton" -> "Houghton"
      [] OTHER -> t

EXIT == <<"e", "x", "i", "t">>
BACK == <<"b", "a", "c", "k">>

\* --------------------------------------------------------- dictionaries

EmptyDict == <<>>

HasKey(d, k) == k \in DOMAIN d

\* d[k] = v
SetItem(d, k, v) == [x \in DOMAIN d \cup {k} |-> IF x = k THEN v ELSE d[x]]

\* Every item of a is an item of b.
SubDict(a, b) == \A k \in DOMAIN a : k \in DOMAIN b /\ b[k] = a[k]

\* ------------------------------------------------------- the cache file

\* Contents of CACHE_FILENAME.  kind is "missing" (no such file), "empty"
\* (zero bytes, as open(..., "w") leaves it), "invalid" (bytes that are not
\* JSON), or the type of the JSON value the text holds; obj is the mapping
\* when that value is an object.  The array is [], the string "states", the
\* number 3.  Under kind "directory" the path is a directory: open() of it
\* raises IsADirectoryError, for reading and for writing.
FileMissing == [kind |-> "missing", obj |-> EmptyDict]
FileDirectory == [kind |-> "directory", obj |-> EmptyDict]
FileEmpty == [kind |-> "empty", obj |-> EmptyDict]
FileInvalid == [kind |-> "invalid", obj |-> EmptyDict]
FileObject(d) == [kind |-> "object", obj |-> d]
FileArray == [kind |-> "array", obj |-> EmptyDict]
FileString == [kind |-> "string", obj |-> EmptyDict]
FileNumber == [kind |-> "number", obj |-> EmptyDict]
FileNull == [kind |-> "null", obj |-> EmptyDict]

\* Python values a cache can be: a dict, or what a non-object JSON text
\* loads as.
PyDict(d) == [type |-> "dict", obj |-> d]
PyList == [type |-> "list", obj |-> EmptyDict]
PyStr == [type |-> "str", obj |-> EmptyDict]
PyInteger == [type |-> "int", obj |-> EmptyDict]
PyNoneType == [type |-> "NoneType", obj |-> EmptyDict]

\* The characters of the string a file of kind "string" holds.
CacheText == "states"

\* A bs4 Tag where the scraper expects text: not JSON serializable.
TagObject == "<bs4.element.Tag>"

NPS == "https://www.nps.gov"

\* Hrefs of the entries a state page lists, and the keys they are cached by.
Hrefs == {"/isro/", "/kewe/"}
SiteUrl(href) == NPS \o href \o "index.htm"
SiteUrls == {SiteUrl(h) : h \in Hrefs}

\* The anchors of the state menu of the index page: text and href.
IndexAnchors ==
    << [text |-> <<" ", "M", "i", " ">>, href |-> "/state/mi/index.htm"],
       [text |-> <<"O", "h">>, href |-> "/state/oh/index.htm"] >>
MiUrl == NPS \o "/state/mi/index.htm"
OhUrl == NPS \o "/state/oh/index.htm"
StateUrls == {MiUrl, OhUrl}

\* json.loads of the file's text: raises on text that is not JSON.
json_loads(f) ==
    CASE f.kind = "object" -> [ok |-> TRUE, val |-> PyDict(f.obj)]
      [] f.kind = "array" -> [ok |-> TRUE, val |-> PyList]
      [] f.kind = "string" -> [ok |-> TRUE, val |-> PyStr]
      [] f.kind = "number" -> [ok |-> TRUE, val |-> PyInteger]
      [] f.kind = "null" -> [ok |-> TRUE, val |-> PyNoneType]
      [] OTHER -> [ok |-> FALSE, val |-> PyDict(EmptyDict)]

\* A faulty variant: a parse error escapes instead of resetting the cache.
open_cache_uncaught(f) ==
    IF f.kind = "missing" THEN [ok |-> TRUE, val |-> PyDict(EmptyDict)]
    ELSE json_loads(f)

\* open_cache: open() of a missing file and json.loads of bad text both end
\* in the bare except, which returns {}.
open_cache(f) ==
    IF f.kind = "missing" \/ ~json_loads(f).ok
    THEN [ok |-> TRUE, val |-> PyDict(EmptyDict)]
    ELSE [ok |-> TRUE, val |-> json_loads(f).val]

\* json.dumps raises TypeError on a Tag anywhere in the mapping: in a site's
\* attribute mapping or in a state's list of them.
Serializable(d) ==
    \A k \in DOMAIN d :
        /\ k \in SiteUrls => d[k].category # TagObject /\ d[k].name # TagObject
        /\ k \in StateUrls =>
              \A i \in 1..Len(d[k]) :
                  d[k][i].category # TagObject /\ d[k][i].name # TagObject

\* json.dumps(cache_dict): the text of the whole mapping.
json_dumps(d) == FileObject(d)

\* json.dumps of any value a caller holds as a cache: of a mapping as
\* above, of the other values the text that loads as them.
json_dumps_value(v) ==
    CASE v.type = "dict" -> json_dumps(v.obj)
      [] v.type = "list" -> FileArray
      [] v.type = "str" -> FileString
      [] v.type = "int" -> FileNumber
      [] OTHER -> FileNull

\* Characters of a text json.dumps makes: 3, [], {}, null and "states"
\* with its quotes; a mapping with an entry takes 13 characters or more
\* ({"49931": {}}), which is longer than each of those.
TextLen(text) ==
    CASE text.kind = "number" -> 1
      [] text.kind = "array" -> 2
      [] text.kind = "null" -> 4
      [] text.kind = "string" -> 8
      [] text.kind = "object" /\ text.obj = EmptyDict -> 2
      [] OTHER -> 13

\* The bytes in the file after a buffered write of `text` from offset 0 is
\* flushed by close(), `f` being the file just before.  Onto the empty file
\* the writer's own open() left, the file is the text.  If another process
\* wrote since that open(), the text overwrites the head of what is there:
\* the file is the text when the text is at least as long, and the text
\* followed by the tail of the other's otherwise, which is not JSON.  Of
\* two mappings with entries, one that contains the other serializes at
\* least as long; otherwise the lengths depend on the texts, and both
\* outcomes exist, as they do over bytes that are not JSON.
WriteOutcomes(f, text) ==
    CASE f.kind \in {"empty", "missing"} -> {text}
      [] f.kind \in {"invalid", "directory"} -> {text, FileInvalid}
      [] TextLen(f) < 13 \/ TextLen(text) < 13 ->
             IF TextLen(text) >= TextLen(f) THEN {text} ELSE {FileInvalid}
      [] SubDict(f.obj, text.obj) -> {text}
      [] SubDict(text.obj, f.obj) -> {FileInvalid}
      [] OTHER -> {text, FileInvalid}

\* ----------------------------------------------------------- NationalSite

NationalSite(category, name, address, zipcode, phone) ==
    <<category, name, address, zipcode, phone>>

Category(site) == site[1]
Name(site) == site[2]
Address(site) == site[3]
Zipcode(site) == site[4]
Phone(site) == site[5]

\* A faulty variant: two attributes land under each other's names.
InstanceDict_shifted(site) ==
    [category |-> site[1], name |-> site[2], address |-> site[3],
     zipcode |-> site[5], phone |-> site[4]]

\* instance.__dict__
InstanceDict(site) ==
    [category |-> site[1], name |-> site[2], address |-> site[3],
     zipcode |-> site[4], phone |-> site[5]]

info(site) ==
    Name(site) \o " (" \o Category(site) \o "): " \o Address(site) \o " "
        \o Zipcode(site)

json_to_NationalSite(json) ==
    NationalSite(json.category, json.name, json.address, json.zipcode,
                 json.phone)

\* ---------------------------------------------------- nearby_places_info

\* JSON null, as Python's None.
PyNone == "<None>"

\* Truth value of a JSON string or null: `not v` holds for "" and None.
Falsy(v) == v = "" \/ v = PyNone

\* How an f-string renders a value.
Str(v) == IF v = PyNone THEN "None" ELSE v

PlaceKeys == {"name", "group_sic_code_name_ext", "address", "city"}

\* nearby_places_info: each of the four subscripts raises KeyError on a
\* missing key; a falsy category, address or city gets its placeholder, the
\* name is rendered as it is.
nearby_places_info(place_dict) ==
    IF ~(PlaceKeys \subseteq DOMAIN place_dict)
    THEN [ok |-> FALSE, val |-> "KeyError"]
    ELSE LET name == place_dict["name"]
             category == IF Falsy(place_dict["group_sic_code_name_ext"])
                         THEN "no category"
                         ELSE place_dict["group_sic_code_name_ext"]
             address == IF Falsy(place_dict["address"]) THEN "no address"
                        ELSE place_dict["address"]
             city == IF Falsy(place_dict["city"]) THEN "no city"
                     ELSE place_dict["city"]
         IN  [ok |-> TRUE,
              val |-> Str(name) \o " (" \o category \o "): " \o address
                          \o ", " \o city]

\* ---------------------------------------------------------------- the web

\* What requests.get and the parse of the index page can come to: a
\* transport error, a page without the state menu (state_list[0] raises),
\* or the menu's anchors.
IndexResponses ==
    { [how |-> "error", anchors |-> <<>>],
      [how |-> "nomenu", anchors |-> <<>>],
      [how |-> "page", anchors |-> IndexAnchors] }

SeqsUpTo(S, n) == UNION {[1..k -> S] : k \in 0..n}

\* The hrefs of the h3 headers of a state page, in page order.  A page may
\* list nothing and may list an entry twice.
Listings(state_url) ==
    IF state_url = MiUrl THEN SeqsUpTo(Hrefs, MaxSites)
    ELSE {<<>>, <<"/isro/">>}

\* A transport error, a page without the results area (sites is None), or
\* the listed hrefs.
StateResponses(state_url) ==
    { [how |-> "error", hrefs |-> <<>>], [how |-> "nolist", hrefs |-> <<>>] }
        \cup { [how |-> "page", hrefs |-> h] : h \in Listings(state_url) }

SitePage(category, name, city, region, zip, phone) ==
    [how |-> "page", category |-> category, name |-> name, city |-> city,
     region |-> region, zip |-> zip, phone |-> phone]

\* The texts a site page holds where the scraper looks.  The page of an
\* entry changes between requests; a designation may be markup (a Tag as
\* contents[0]).
SitePages(site_url) ==
    IF site_url = SiteUrl("/isro/")
    THEN { SitePage("National Park", "Isle Royale", " Houghton", "MI",
                    " 49931 ", "(906) 482-0984"),
           SitePage(TagObject, "Isle Royale", " Houghton", "MI",
                    " 49931 ", "(906) 482-0984") }
    ELSE { SitePage("National Historical Park", "Keweenaw", "Calumet", "MI",
                    " 49913", "(906) 337-3168"),
           SitePage("National Historical Park", "Keweenaw", "Calumet", "MI",
                    "49931 ", "(906) 337-3168") }

\* A transport error, a page lacking one of the marked elements (find
\* returns None), or the page's texts.
SiteResponses(site_url) ==
    { [how |-> "error", category |-> "", name |-> "", city |-> "",
       region |-> "", zip |-> "", phone |-> ""],
      [how |-> "nofield", category |-> "", name |-> "", city |-> "",
       region |-> "", zip |-> "", phone |-> ""] }
        \cup SitePages(site_url)

Place(name, category, address, city) ==
    [name |-> name, group_sic_code_name_ext |-> category,
     address |-> address, city |-> city]

\* Bodies the search API answers with: results whose fields are all there
\* (some blank), a result without the city key, and no searchResults at all.
ApiBodies ==
    { [searchResults |->
          << [fields |-> Place("Suomi Cafe", "Restaurants", "54 Huron St",
                               "Houghton")],
             [fields |-> Place("Boat Dock", "", "", "")] >>],
      [searchResults |->
          << [fields |-> [name |-> "Trailhead",
                          group_sic_code_name_ext |-> "Parks",
                          address |-> PyNone]] >>],
      [resultsCount |-> 0] }

\* A transport error, a body that is not JSON (response.json() raises), or
\* the parsed body.
ApiResponses ==
    { [how |-> "error", body |-> [resultsCount |-> 0]],
      [how |-> "notjson", body |-> [resultsCount |-> 0]] }
        \cup { [how |-> "json", body |-> b] : b \in ApiBodies }

\* Lines 124-130: the state name, stripped and lower-cased, to its URL.
RECURSIVE StateDict(_, _)
StateDict(anchors, n) ==
    IF n = 0 THEN EmptyDict
    ELSE SetItem(StateDict(anchors, n - 1),
                 Lower(Strip(anchors[n].text)), NPS \o anchors[n].href)

\* Lines 155-164: the record scraped from a site page.
ScrapeSite(page) ==
    NationalSite(page.category, page.name,
                 StripText(page.city) \o ", " \o StripText(page.region),
                 StripText(page.zip), StripText(page.phone))

\* -------------------------------------------------------------- the state

VARIABLES
    file,    \* contents of CACHE_FILENAME, shared by the processes
    pc,      \* per process: where it is
    CACHE,   \* per process: the module global CACHE
    frame,   \* per process: the fetch call in progress
    states,  \* per process: __main__'s states
    sites,   \* per process: __main__'s sites
    count,   \* per process: __main__'s count
    out,     \* per process: what the last handler printed
    last,    \* per process: the last fetch call that ended, and how
    repeat,  \* per process: that call repeated the returned call before it
    listed,  \* per process: how each state URL's latest cache miss went
    resaved, \* per process: its caller has called save_cache since then
    place_dict,   \* the formatter alone: its argument
    description,  \* the formatter alone: what it came to
    record,       \* the record conversions alone: a site record
    rebuilt,      \* the record conversions alone: what they came to
    saver,   \* the process whose save_cache ended last, "none" before any
    typed,   \* per process: the line input() returned, until it is handled
    inp,     \* per process: __main__'s inp, until it is handled
    ncalls,  \* per process: calls made of the fetchers and of save_cache
    asked    \* per process: the get_nearby_places calls made, in order

hist == <<last, repeat, listed, resaved>>

fmt == <<place_dict, description, record, rebuilt>>

vars ==
    <<pc, file, saver, CACHE, frame, states, sites, count, out, hist, typed,
      inp, ncalls, asked, fmt>>

NoFrame ==
    [op |-> "none", key |-> "", caller |-> "", after |-> "", net |-> 0,
     hdrs |-> <<>>, acc |-> <<>>, ret |-> <<>>, had |-> {},
     dumped_json_cache |-> FileEmpty]

NoCall == [how |-> "none", key |-> "", net |-> 0, op |-> "none", res |-> <<>>]

\* What an earlier run left in the file after it resolved the states, listed
\* a state with one entry and looked up the places near it.
IsleRoyale ==
    NationalSite("National Park", "Isle Royale", "Houghton, MI", "49931",
                 "(906) 482-0984")
SeedCache ==
    [k \in {"states", MiUrl, SiteUrl("/isro/"), "49931"} |->
        CASE k = "states" -> StateDict(IndexAnchors, Len(IndexAnchors))
          [] k = MiUrl -> <<InstanceDict(IsleRoyale)>>
          [] k = SiteUrl("/isro/") -> InstanceDict(IsleRoyale)
          [] OTHER -> [resultsCount |-> 0]]

\* Files a run can find at start.
InitFiles ==
    { FileMissing, FileDirectory, FileInvalid, FileObject(EmptyDict),
      FileArray, FileString, FileNumber, FileNull, FileObject(SeedCache) }

\* The formatter has not been applied.
NoDescription == [how |-> "none", ok |-> FALSE, val |-> ""]

\* The record has not been converted.
NoRebuilt ==
    [how |-> "none", attrs |-> InstanceDict(IsleRoyale), site |-> IsleRoyale]

\* Values an attribute of a site record takes: a text, blank, or null.
AttrValues == {"Isle Royale", "", PyNone}

\* Site records: NationalSite applied to any five values.
SiteRecords ==
    { NationalSite(c, n, a, z, ph) :
          c \in AttrValues, n \in AttrValues, a \in AttrValues,
          z \in AttrValues, ph \in AttrValues }

\* Field sets the formatter is applied to: any of the four keys may be
\* missing, and a value is a text, blank, or null.
PlaceDicts ==
    UNION { [S -> {"Houghton", "", PyNone}] : S \in SUBSET PlaceKeys }

InitProcs(started) ==
    /\ file \in InitFiles
    /\ saver = "none"
    /\ pc = [p \in Procs |-> IF p \in started THEN "start" ELSE "off"]
    /\ CACHE = [p \in Procs |-> PyDict(EmptyDict)]
    /\ frame = [p \in Procs |-> NoFrame]
    /\ states = [p \in Procs |-> EmptyDict]
    /\ sites = [p \in Procs |-> <<>>]
    /\ count = [p \in Procs |-> 1]
    /\ out = [p \in Procs |-> <<>>]
    /\ last = [p \in Procs |-> NoCall]
    /\ repeat = [p \in Procs |-> FALSE]
    /\ listed = [p \in Procs |-> EmptyDict]
    /\ resaved = [p \in Procs |-> FALSE]
    /\ typed = [p \in Procs |-> <<>>]
    /\ inp = [p \in Procs |-> <<>>]
    /\ ncalls = [p \in Procs |-> 0]
    /\ asked = [p \in Procs |-> <<>>]

\* One process.
Init ==
    /\ InitProcs({"p1"})
    /\ place_dict = EmptyDict
    /\ description = NoDescription
    /\ record = IsleRoyale
    /\ rebuilt = NoRebuilt

\* One process that finds no cache to load: no file, a directory, an
\* empty mapping, or text that is not JSON.
InitFresh ==
    /\ Init
    /\ file \in { FileMissing, FileDirectory, FileInvalid,
                   FileObject(EmptyDict) }

\* Two processes on one cache file.
InitShared ==
    /\ InitProcs(Procs)
    /\ place_dict = EmptyDict
    /\ description = NoDescription
    /\ record = IsleRoyale
    /\ rebuilt = NoRebuilt

\* No process: nearby_places_info alone, on any field set.
InitFormat ==
    /\ InitProcs({})
    /\ place_dict \in PlaceDicts
    /\ description = NoDescription
    /\ record = IsleRoyale
    /\ rebuilt = NoRebuilt

\* No process: the record conversions alone, on any site record.
InitRecord ==
    /\ InitProcs({})
    /\ place_dict = EmptyDict
    /\ description = NoDescription
    /\ record \in SiteRecords
    /\ rebuilt = NoRebuilt

CallBudget ==
    IF Cardinality({p \in Procs : pc[p] # "off"}) > 1 THEN MaxSharedCalls
    ELSE MaxCalls

\* ------------------------------------------------- __main__ after a call

\* Lines 267-273: the numbered list of sites.
RECURSIVE ListSites(_, _)
ListSites(ss, n) ==
    IF n = 0 THEN <<>>
    ELSE Append(ListSites(ss, n - 1),
                "[" \o Digits[n + 1] \o "] " \o info(ss[n]))

\* Lines 283-286: the numbered list of places; KeyError from the result's
\* subscripts or from nearby_places_info ends it.
RECURSIVE PlaceLines(_, _)
PlaceLines(results, n) ==
    IF n = 0 THEN [ok |-> TRUE, val |-> <<>>]
    ELSE LET before == PlaceLines(results, n - 1)
             place == results[n]
         IN  IF ~before.ok THEN before
             ELSE IF "fields" \notin DOMAIN place
                  \/ ~nearby_places_info(place["fields"]).ok
                  THEN [ok |-> FALSE, val |-> before.val]
                  ELSE [ok |-> TRUE,
                        val |-> Append(before.val,
                                   "[" \o Digits[n + 1] \o "] "
                                     \o nearby_places_info(place["fields"]).val)]

PrintPlaces(places) ==
    IF "searchResults" \notin DOMAIN places THEN [ok |-> FALSE, val |-> <<>>]
    ELSE PlaceLines(places["searchResults"], Len(places["searchResults"]))

\* How a cache miss of get_sites_for_state that stores its list under
\* state_url ends: the records it returns, the hrefs the page listed, the
\* site URLs the cache had when the call began, and how the miss before it
\* for the same URL ended.
Listing(p, state_url, how, res) ==
    [how |-> how, res |-> res, hdrs |-> frame[p].hdrs, had |-> frame[p].had,
     after |-> IF state_url \in DOMAIN listed[p]
               THEN listed[p][state_url].how ELSE "none"]

\* A cache miss of get_sites_for_state for state_url ends before line 200:
\* nothing is stored under state_url.
Aborted(p, state_url) ==
    [how |-> "raised", res |-> <<>>, hdrs |-> <<>>, had |-> {},
     after |-> IF state_url \in DOMAIN listed[p]
               THEN listed[p][state_url].how ELSE "none"]

\* The call that ends is the one that returned just before it, made again.
Repeats(p, op, key) ==
    last[p].how = "returned" /\ last[p].op = op /\ last[p].key = key

\* A fetch call of process p returns val to its caller, which goes on: an
\* importing caller takes the value; __main__ stores it and prints.
Return(p, op, key, val, net, caller) ==
    /\ last' = [last EXCEPT ![p] =
                   [how |-> "returned", key |-> key, net |-> net, op |-> op,
                    res |-> val]]
    /\ repeat' = [repeat EXCEPT ![p] = Repeats(p, op, key)]
    /\ listed' = [listed EXCEPT ![p] =
                     IF op = "get_sites_for_state" /\ net > 0
                     THEN SetItem(@, key, Listing(p, key, "returned", val))
                     ELSE @]
    /\ resaved' = [resaved EXCEPT ![p] = FALSE]
    /\ frame' = [frame EXCEPT ![p] = NoFrame]
    /\ typed' = [typed EXCEPT ![p] = <<>>]
    /\ inp' = [inp EXCEPT ![p] = <<>>]
    /\ CASE caller = "lib" ->
              /\ pc' = [pc EXCEPT ![p] = "lib"]
              /\ UNCHANGED <<states, sites, count, out>>
         [] caller = "main" /\ op = "build_state_url_dict" ->
              /\ pc' = [pc EXCEPT ![p] = "statePrompt"]
              /\ states' = [states EXCEPT ![p] = val]
              /\ UNCHANGED <<sites, count, out>>
         [] caller = "main" /\ op = "get_sites_for_state" ->
              /\ pc' = [pc EXCEPT ![p] = "sitePrompt"]
              /\ sites' = [sites EXCEPT ![p] = val]
              /\ count' = [count EXCEPT ![p] = Len(val) + 1]
              /\ out' = [out EXCEPT ![p] = ListSites(val, Len(val))]
              /\ UNCHANGED states
         [] caller = "main" /\ op = "get_nearby_places" ->
              /\ pc' = [pc EXCEPT ![p] =
                           IF PrintPlaces(val).ok THEN "sitePrompt"
                           ELSE "crashed"]
              /\ out' = [out EXCEPT ![p] =
                            IF PrintPlaces(val).ok THEN PrintPlaces(val).val
                            ELSE Append(PrintPlaces(val).val, "KeyError")]
              /\ UNCHANGED <<states, sites, count>>

\* A fetch call of process p raises exc, a pair of the exception and the
\* function it is raised in.  Nothing in the module catches it:
\* under __main__ the process ends with the traceback, an importing caller
\* gets the exception.
Raise(p, op, key, exc, net, caller) ==
    /\ last' = [last EXCEPT ![p] =
                   [how |-> "raised", key |-> key, net |-> net, op |-> op,
                    res |-> exc]]
    /\ repeat' = [repeat EXCEPT ![p] = Repeats(p, op, key)]
    /\ listed' = [listed EXCEPT ![p] =
                     IF op = "get_sites_for_state" /\ net > 0
                     THEN SetItem(@, key,
                                  IF HasKey(CACHE'[p].obj, key)
                                  THEN Listing(p, key, "raised", <<>>)
                                  ELSE Aborted(p, key))
                     ELSE @]
    /\ resaved' = [resaved EXCEPT ![p] = FALSE]
    /\ frame' = [frame EXCEPT ![p] = NoFrame]
    /\ typed' = [typed EXCEPT ![p] = <<>>]
    /\ inp' = [inp EXCEPT ![p] = <<>>]
    /\ pc' = [pc EXCEPT ![p] = IF caller = "lib" THEN "lib" ELSE "crashed"]
    /\ out' = [out EXCEPT ![p] = IF caller = "lib" THEN out[p] ELSE <<exc[1]>>]
    /\ UNCHANGED <<states, sites, count>>

\* ----------------------------------------------------------- save_cache

\* A faulty variant: the entry is set in memory and the save is left out.
SetAndSave_nosave(p, k, v, fr) ==
    /\ CACHE' = [CACHE EXCEPT ![p] = PyDict(SetItem(CACHE[p].obj, k, v))]
    /\ UNCHANGED <<file, saver>>
    /\ IF fr.after = "loop"
       THEN /\ pc' = [pc EXCEPT ![p] = "loop"]
            /\ frame' = [frame EXCEPT ![p] = fr]
            /\ UNCHANGED <<states, sites, count, out, hist, typed, inp>>
       ELSE Return(p, fr.op, fr.key, fr.ret, fr.net, fr.caller)

\* CACHE[k] = v, then save_cache(CACHE) up to its open(CACHE_FILENAME, "w"):
\* json.dumps raises on a Tag, before the file is touched; the open raises
\* when the path is a directory, and leaves the file empty otherwise.  fr
\* is the call's frame for the write that follows.
SetAndSave(p, k, v, fr) ==
    LET d == SetItem(CACHE[p].obj, k, v)
        fn == IF fr.after = "loop" THEN "get_site_instance" ELSE fr.op
    IN
    /\ CACHE' = [CACHE EXCEPT ![p] = PyDict(d)]
    /\ UNCHANGED saver
    /\ IF ~Serializable(d)
       THEN /\ UNCHANGED file
            /\ Raise(p, fr.op, fr.key, <<"TypeError", fn>>, fr.net,
                     fr.caller)
       ELSE IF file.kind = "directory"
       THEN /\ UNCHANGED file
            /\ Raise(p, fr.op, fr.key, <<"IsADirectoryError", fn>>, fr.net,
                     fr.caller)
       ELSE /\ file' = FileEmpty
            /\ pc' = [pc EXCEPT ![p] = "write"]
            /\ frame' = [frame EXCEPT ![p] =
                            [fr EXCEPT !.dumped_json_cache = json_dumps(d)]]
            /\ UNCHANGED <<states, sites, count, out, hist, typed, inp>>

\* A faulty variant: the write merges the mapping into what the file holds.
WriteText_merge(p) ==
    IF file.kind = "object"
    THEN FileObject([k \in DOMAIN file.obj \cup DOMAIN CACHE[p].obj |->
                        IF k \in DOMAIN CACHE[p].obj THEN CACHE[p].obj[k]
                        ELSE file.obj[k]])
    ELSE json_dumps(CACHE[p].obj)

\* Line 45: the text save_cache writes is the dump line 43 made of its
\* argument, the whole mapping.
WriteText(p) == frame[p].dumped_json_cache

\* save_cache's fw.write and fw.close(), lines 45-46, and the return of
\* save_cache to the importing caller that called it, or of the fetch
\* function that called it (or, inside get_sites_for_state's loop, the
\* return of get_site_instance to the loop).
Write(p) ==
    /\ UNCHANGED <<fmt, asked>>
    /\ pc[p] = "write"
    /\ \E f \in WriteOutcomes(file, WriteText(p)) : file' = f
    /\ saver' = p
    /\ UNCHANGED <<CACHE, ncalls>>
    /\ IF frame[p].op = "save_cache"
       THEN /\ pc' = [pc EXCEPT ![p] = "lib"]
            /\ frame' = [frame EXCEPT ![p] = NoFrame]
            /\ UNCHANGED <<states, sites, count, out, hist, typed, inp>>
       ELSE IF frame[p].after = "loop"
       THEN /\ pc' = [pc EXCEPT ![p] = "loop"]
            /\ UNCHANGED <<frame, states, sites, count, out, hist, typed, inp>>
       ELSE Return(p, frame[p].op, frame[p].key, frame[p].ret, frame[p].net,
                   frame[p].caller)

\* ------------------------------------------------------------ the fetchers

\* A faulty variant: the test does not find the entries of site pages.
Contains_nosites(p, k) ==
    IF CACHE[p].type = "dict" /\ HasKey(CACHE[p].obj, k) /\ k \notin SiteUrls
    THEN "True" ELSE "False"

\* `k in CACHE` by the type of CACHE: membership among the keys of a dict
\* and the elements of a list ([] has none), the substring test of a str,
\* TypeError of an int and of None.
Contains(p, k) ==
    CASE CACHE[p].type = "dict" ->
             IF HasKey(CACHE[p].obj, k) THEN "True" ELSE "False"
      [] CACHE[p].type = "list" -> "False"
      [] CACHE[p].type = "str" -> IF k = CacheText THEN "True" ELSE "False"
      [] OTHER -> "TypeError"

\* A faulty variant: the test never finds the key.
InCache_never(p, k) == Contains(p, k) = "Found"

\* The test of the fetchers' first line comes out true.
InCache(p, k) == Contains(p, k) = "True"

\* The fetcher's first lines raise TypeError before any request: the `in`
\* test itself, or CACHE[k] of the hit branch when CACHE is a str.
Unusable(p, k) ==
    \/ Contains(p, k) = "TypeError"
    \/ InCache(p, k) /\ CACHE[p].type # "dict"

Budget(p) ==
    /\ ncalls["p1"] + ncalls["p2"] < CallBudget
    /\ ncalls' = [ncalls EXCEPT ![p] = @ + 1]

NewFrame(op, key, caller) ==
    [op |-> op, key |-> key, caller |-> caller, after |-> "return",
     net |-> 0, hdrs |-> <<>>, acc |-> <<>>, ret |-> <<>>, had |-> {},
     dumped_json_cache |-> FileEmpty]

\* build_state_url_dict, lines 119-133, up to save_cache's open().
build_state_url_dict(p, caller) ==
    LET fr == NewFrame("build_state_url_dict", "states", caller) IN
    IF Unusable(p, "states")
    THEN /\ UNCHANGED <<CACHE, file, saver>>
         /\ Raise(p, fr.op, fr.key, <<"TypeError", "build_state_url_dict">>,
                  0, caller)
    ELSE IF InCache(p, "states")
    THEN /\ UNCHANGED <<CACHE, file, saver>>
         /\ Return(p, fr.op, fr.key, CACHE[p].obj["states"], 0, caller)
    ELSE \E r \in IndexResponses :
            IF r.how = "error"
            THEN /\ UNCHANGED <<CACHE, file, saver>>
                 /\ Raise(p, fr.op, fr.key,
                          <<"ConnectionError", "build_state_url_dict">>,
                          1, caller)
            ELSE IF r.how = "nomenu"
            THEN /\ UNCHANGED <<CACHE, file, saver>>
                 /\ Raise(p, fr.op, fr.key,
                          <<"IndexError", "build_state_url_dict">>,
                          1, caller)
            ELSE IF CACHE[p].type # "dict"
            THEN /\ UNCHANGED <<CACHE, file, saver>>
                 /\ Raise(p, fr.op, fr.key,
                          <<"TypeError", "build_state_url_dict">>,
                          1, caller)
            ELSE LET state_dict == StateDict(r.anchors, Len(r.anchors)) IN
                 SetAndSave(p, "states", state_dict,
                            [fr EXCEPT !.net = 1, !.ret = state_dict])

\* A faulty variant: a cached record is rebuilt with two attributes exchanged.
FromCache_swapped(json) ==
    NationalSite(json.name, json.category, json.address, json.zipcode,
                 json.phone)

\* Line 150 and line 187: the record of a cached attribute mapping.
FromCache(json) == json_to_NationalSite(json)

\* get_site_instance, lines 148-167, up to save_cache's open().  fr is the
\* frame of the call it belongs to: its own when called by itself, that of
\* get_sites_for_state when called from the loop of line 195, which then
\* appends the instance (lines 198-199).
get_site_instance(p, site_url, fr) ==
    IF Unusable(p, site_url)
    THEN /\ UNCHANGED <<CACHE, file, saver>>
         /\ Raise(p, fr.op, fr.key, <<"TypeError", "get_site_instance">>,
                  fr.net, fr.caller)
    ELSE IF InCache(p, site_url)
    THEN LET instance == FromCache(CACHE[p].obj[site_url]) IN
         /\ UNCHANGED <<CACHE, file, saver>>
         /\ IF fr.after = "loop"
            THEN /\ pc' = [pc EXCEPT ![p] = "loop"]
                 /\ frame' = [frame EXCEPT ![p] =
                                 [fr EXCEPT !.acc = Append(@, instance)]]
                 /\ UNCHANGED <<states, sites, count, out, hist, typed, inp>>
            ELSE Return(p, fr.op, fr.key, instance, fr.net, fr.caller)
    ELSE \E r \in SiteResponses(site_url) :
            IF r.how = "error"
            THEN /\ UNCHANGED <<CACHE, file, saver>>
                 /\ Raise(p, fr.op, fr.key,
                          <<"ConnectionError", "get_site_instance">>,
                          fr.net + 1, fr.caller)
            ELSE IF r.how = "nofield"
            THEN /\ UNCHANGED <<CACHE, file, saver>>
                 /\ Raise(p, fr.op, fr.key,
                          <<"AttributeError", "get_site_instance">>,
                          fr.net + 1, fr.caller)
            ELSE IF CACHE[p].type # "dict"
            THEN /\ UNCHANGED <<CACHE, file, saver>>
                 /\ Raise(p, fr.op, fr.key,
                          <<"TypeError", "get_site_instance">>,
                          fr.net + 1, fr.caller)
            ELSE LET instance == ScrapeSite(r) IN
                 SetAndSave(p, site_url, InstanceDict(instance),
                            [fr EXCEPT
                               !.net = @ + 1,
                               !.acc = IF fr.after = "loop"
                                       THEN Append(@, instance) ELSE @,
                               !.ret = IF fr.after = "loop" THEN @
                                       ELSE instance])

\* A faulty variant: the cached list is read back to front.
CachedSites_reversed(p, state_url) ==
    LET c == CACHE[p].obj[state_url] IN
    [i \in 1..Len(c) |-> FromCache(c[Len(c) + 1 - i])]

\* Lines 186-187: the records of the cached list, in its order.
CachedSites(p, state_url) ==
    LET c == CACHE[p].obj[state_url] IN
    [i \in 1..Len(c) |-> FromCache(c[i])]

\* A faulty variant: the list that will be cached is put in CACHE before the loop
\* fills it.
PreLoopCache_stored(p, state_url) ==
    PyDict(SetItem(CACHE[p].obj, state_url, <<>>))

\* Lines 190-194: CACHE as the loop of line 195 finds it; nothing has been
\* stored under the state URL.
PreLoopCache(p, state_url) == CACHE[p]

\* get_sites_for_state, lines 183-194 and 202: a hit returns; a miss
\* fetches the state page and enters the loop over its headers.
get_sites_for_state(p, state_url, caller) ==
    LET fr == NewFrame("get_sites_for_state", state_url, caller) IN
    IF Unusable(p, state_url)
    THEN /\ UNCHANGED <<CACHE, file, saver>>
         /\ Raise(p, fr.op, fr.key, <<"TypeError", "get_sites_for_state">>,
                  0, caller)
    ELSE IF InCache(p, state_url)
    THEN /\ UNCHANGED <<CACHE, file, saver>>
         /\ Return(p, fr.op, fr.key, CachedSites(p, state_url), 0, caller)
    ELSE \E r \in StateResponses(state_url) :
            /\ UNCHANGED <<file, saver>>
            /\ IF r.how = "error"
               THEN /\ UNCHANGED CACHE
                    /\ Raise(p, fr.op, fr.key,
                             <<"ConnectionError", "get_sites_for_state">>, 1,
                             caller)
               ELSE IF r.how = "nolist"
               THEN /\ UNCHANGED CACHE
                    /\ Raise(p, fr.op, fr.key,
                             <<"AttributeError", "get_sites_for_state">>, 1,
                             caller)
               ELSE /\ CACHE' = [CACHE EXCEPT ![p] =
                                    PreLoopCache(p, state_url)]
                    /\ pc' = [pc EXCEPT ![p] = "loop"]
                    /\ frame' = [frame EXCEPT ![p] =
                                    [fr EXCEPT !.net = 1, !.after = "loop",
                                               !.hdrs = r.hrefs,
                                               !.had = DOMAIN CACHE[p].obj
                                                          \cap SiteUrls]]
                    /\ UNCHANGED <<states, sites, count, out, hist, typed,
                                   inp>>

\* A faulty variant: the list is built from the records back to front.
SitesCache_reversed(acc) ==
    [i \in 1..Len(acc) |-> InstanceDict(acc[Len(acc) + 1 - i])]

\* Lines 190 and 199: site_instances_cache, the attribute mappings of the
\* records in the order the loop appended them.
SitesCache(acc) == [i \in 1..Len(acc) |-> InstanceDict(acc[i])]

\* The loop of line 195 has gone through every header.
LoopDone(fr) == Len(fr.acc) >= Len(fr.hdrs)

\* One turn of the loop of lines 195-199, or, after the last, lines 200-201
\* up to save_cache's open().
Loop(p) ==
    LET fr == frame[p] IN
    /\ UNCHANGED <<fmt, asked>>
    /\ pc[p] = "loop"
    /\ UNCHANGED ncalls
    /\ IF ~LoopDone(fr)
       THEN get_site_instance(p, SiteUrl(fr.hdrs[Len(fr.acc) + 1]), fr)
       ELSE IF CACHE[p].type # "dict"
       THEN /\ UNCHANGED <<CACHE, file, saver>>
            /\ Raise(p, fr.op, fr.key,
                     <<"TypeError", "get_sites_for_state">>,
                     fr.net, fr.caller)
       ELSE SetAndSave(p, fr.key, SitesCache(fr.acc),
                       [fr EXCEPT !.after = "return", !.ret = fr.acc])

\* A faulty variant: the places are cached by the name of the site.
NearbyKey_name(site_object) == Name(site_object)

\* Lines 217, 219, 223 and 225: the key of a site's places is its zipcode.
NearbyKey(site_object) == Zipcode(site_object)

\* The call of get_nearby_places that begins is put on record: the site it
\* is given and the number of API requests it issues.
Asked(p, site_object, api) ==
    asked' = [asked EXCEPT ![p] = Append(@, [site |-> site_object,
                                             api |-> api])]

\* get_nearby_places, lines 217-227, up to save_cache's open().
get_nearby_places(p, site_object, caller) ==
    LET fr == NewFrame("get_nearby_places", NearbyKey(site_object), caller) IN
    IF Unusable(p, NearbyKey(site_object))
    THEN /\ Asked(p, site_object, 0)
         /\ UNCHANGED <<CACHE, file, saver>>
         /\ Raise(p, fr.op, fr.key, <<"TypeError", "get_nearby_places">>,
                  0, caller)
    ELSE IF InCache(p, NearbyKey(site_object))
    THEN /\ Asked(p, site_object, 0)
         /\ UNCHANGED <<CACHE, file, saver>>
         /\ Return(p, fr.op, fr.key, CACHE[p].obj[NearbyKey(site_object)], 0,
                   caller)
    ELSE /\ Asked(p, site_object, 1)
         /\ \E r \in ApiResponses :
               IF r.how = "error"
               THEN /\ UNCHANGED <<CACHE, file, saver>>
                    /\ Raise(p, fr.op, fr.key,
                             <<"ConnectionError", "get_nearby_places">>,
                             1, caller)
               ELSE IF r.how = "notjson"
               THEN /\ UNCHANGED <<CACHE, file, saver>>
                    /\ Raise(p, fr.op, fr.key,
                             <<"JSONDecodeError", "get_nearby_places">>,
                             1, caller)
               ELSE IF CACHE[p].type # "dict"
               THEN /\ UNCHANGED <<CACHE, file, saver>>
                    /\ Raise(p, fr.op, fr.key,
                             <<"TypeError", "get_nearby_places">>,
                             1, caller)
               ELSE SetAndSave(p, NearbyKey(site_object), r.body,
                               [fr EXCEPT !.net = 1, !.ret = r.body])

\* ------------------------------------------------------------- processes

\* Line 48, CACHE = open_cache(), when the module is loaded; then the module
\* runs as the script or serves an importing caller.
Import(p, mode) ==
    /\ UNCHANGED <<fmt, asked>>
    /\ pc[p] = "start"
    /\ IF open_cache(file).ok
       THEN /\ CACHE' = [CACHE EXCEPT ![p] = open_cache(file).val]
            /\ pc' = [pc EXCEPT ![p] = mode]
            /\ UNCHANGED out
       ELSE /\ pc' = [pc EXCEPT ![p] = "crashed"]
            /\ out' = [out EXCEPT ![p] = <<"JSONDecodeError">>]
            /\ UNCHANGED CACHE
    /\ UNCHANGED <<file, saver, frame, states, sites, count, hist, typed, inp,
                   ncalls>>

\* Site records an importing caller passes to get_nearby_places.
SiteObjects ==
    {ScrapeSite(pg) : pg \in {q \in UNION {SitePages(u) : u \in SiteUrls} :
                                 q.category # TagObject}}

LibBuild(p) ==
    /\ UNCHANGED <<fmt, asked>>
    /\ pc[p] = "lib"
    /\ Budget(p)
    /\ build_state_url_dict(p, "lib")

LibSite(p) ==
    /\ UNCHANGED <<fmt, asked>>
    /\ pc[p] = "lib"
    /\ Budget(p)
    /\ \E site_url \in SiteUrls :
          get_site_instance(p, site_url,
                            NewFrame("get_site_instance", site_url, "lib"))

LibSites(p) ==
    /\ UNCHANGED <<fmt, asked>>
    /\ pc[p] = "lib"
    /\ Budget(p)
    /\ \E state_url \in StateUrls : get_sites_for_state(p, state_url, "lib")

LibNearby(p) ==
    /\ UNCHANGED fmt
    /\ pc[p] = "lib"
    /\ Budget(p)
    /\ \E site_object \in SiteObjects :
          get_nearby_places(p, site_object, "lib")

\* Values an importing caller passes to save_cache: the module's CACHE, an
\* empty mapping, or a mapping it made itself.
SaveArgs(p) ==
    { CACHE[p], PyDict(EmptyDict),
      PyDict([k \in {"49931"} |-> [resultsCount |-> 0]]) }

\* save_cache(cache_dict) called by the importing caller, lines 43-44:
\* json.dumps raises on a Tag, before the file is touched; the open raises
\* when the path is a directory, and leaves the file empty otherwise.  The
\* caller gets the exception; CACHE is not touched.
LibSave(p) ==
    /\ UNCHANGED <<fmt, asked>>
    /\ pc[p] = "lib"
    /\ Budget(p)
    /\ resaved' = [resaved EXCEPT ![p] = TRUE]
    /\ UNCHANGED <<CACHE, saver, states, sites, count, out, last, repeat,
                   listed, typed, inp>>
    /\ \E cache_dict \in SaveArgs(p) :
          IF cache_dict.type = "dict" /\ ~Serializable(cache_dict.obj)
          THEN UNCHANGED <<file, pc, frame>>
          ELSE IF file.kind = "directory"
          THEN UNCHANGED <<file, pc, frame>>
          ELSE /\ file' = FileEmpty
               /\ pc' = [pc EXCEPT ![p] = "write"]
               /\ frame' = [frame EXCEPT ![p] =
                               [NewFrame("save_cache", "", "lib") EXCEPT
                                   !.dumped_json_cache =
                                       json_dumps_value(cache_dict)]]

\* Line 262.
MainStart(p) ==
    /\ UNCHANGED <<fmt, asked>>
    /\ pc[p] = "main"
    /\ Budget(p)
    /\ build_state_url_dict(p, "main")

\* Lines the user types at the state prompt.
StateInputs ==
    { <<"m", "i">>, <<"M", "i">>, <<"o", "h">>, <<"a", "t", "l">>, EXIT,
      <<"E", "X", "I", "T">>, <<>> }

\* Lines the user types at the site prompt.
SiteInputs ==
    { BACK, <<"B", "a", "c", "k">>, EXIT, <<"x">>, <<>>, <<"-", "1">>,
      <<"½">>, <<"0", "1">> }
        \cup { <<Digits[n + 1]>> : n \in 0..(MaxSites + 2) }

\* Line 264 and line 276: input() returns a line, lower() is applied.
ReadLine(p) ==
    /\ UNCHANGED <<fmt, asked>>
    /\ pc[p] \in {"statePrompt", "sitePrompt"}
    /\ \E line \in IF pc[p] = "statePrompt" THEN StateInputs ELSE SiteInputs :
          /\ typed' = [typed EXCEPT ![p] = line]
          /\ inp' = [inp EXCEPT ![p] = Lower(line)]
    /\ pc' = [pc EXCEPT ![p] =
                 IF pc[p] = "statePrompt" THEN "stateInput" ELSE "siteInput"]
    /\ UNCHANGED <<file, saver, CACHE, frame, states, sites, count, out, hist,
                   ncalls>>

\* What is left of a handler that calls no fetcher: it prints and goes to
\* `to`.
Handled(p, to, printed) ==
    /\ pc' = [pc EXCEPT ![p] = to]
    /\ out' = [out EXCEPT ![p] = printed]
    /\ typed' = [typed EXCEPT ![p] = <<>>]
    /\ inp' = [inp EXCEPT ![p] = <<>>]
    /\ UNCHANGED <<file, saver, CACHE, frame, states, sites, count, hist,
                   ncalls>>

\* A faulty variant: the error branch leaves the loop.
BadStateName_break(p) ==
    Handled(p, "exited", <<"[Error] Enter proper state name\n">>)

\* Lines 297-298: the message, and the outer loop goes round.
BadStateName(p) ==
    Handled(p, "statePrompt", <<"[Error] Enter proper state name\n">>)

\* Lines 265-266 and 295-298: the outer loop's branch on inp.
StateInput(p) ==
    /\ UNCHANGED <<fmt, asked>>
    /\ pc[p] = "stateInput"
    /\ IF inp[p] \in DOMAIN states[p]
       THEN /\ Budget(p)
            /\ get_sites_for_state(p, states[p][inp[p]], "main")
       ELSE IF inp[p] = EXIT
       THEN Handled(p, "exited", <<>>)
       ELSE BadStateName(p)

\* A faulty variant: "back" goes round the inner loop.
AfterBack_continue == "sitePrompt"

\* Line 292: break leaves the inner loop for the outer loop's prompt.
AfterBack == "statePrompt"

\* Line 278: int(inp) in range(1, count+1).
InRange(n, cnt) == 1 <= n /\ n < cnt + 1

\* Lines 277-294: the inner loop's branch on inp.
SiteInput(p) ==
    /\ UNCHANGED fmt
    /\ pc[p] = "siteInput"
    /\ IF /\ IsNumeric(inp[p])
          /\ PyInt(inp[p]).ok
          /\ InRange(PyInt(inp[p]).val, count[p])
          /\ PyInt(inp[p]).val <= Len(sites[p])
       THEN /\ Budget(p)
            /\ get_nearby_places(p, sites[p][PyInt(inp[p]).val], "main")
       ELSE /\ UNCHANGED asked
            /\ IF IsNumeric(inp[p])
               THEN IF ~PyInt(inp[p]).ok
                    THEN Handled(p, "crashed", <<"ValueError">>)
                    ELSE IF InRange(PyInt(inp[p]).val, count[p])
                    THEN Handled(p, "crashed", <<"IndexError">>)
                    ELSE Handled(p, "sitePrompt", <<"[Error] Invalid input">>)
               ELSE IF inp[p] = EXIT
               THEN Handled(p, "exited", <<>>)
               ELSE IF inp[p] = BACK
               THEN Handled(p, AfterBack, <<>>)
               ELSE Handled(p, "sitePrompt", <<"[Error] Invalid input">>)

Next ==
    \E p \in Procs :
        \/ Import(p, "main")
        \/ Import(p, "lib")
        \/ MainStart(p)
        \/ ReadLine(p)
        \/ StateInput(p)
        \/ SiteInput(p)
        \/ LibBuild(p)
        \/ LibSite(p)
        \/ LibSites(p)
        \/ LibNearby(p)
        \/ LibSave(p)
        \/ Loop(p)
        \/ Write(p)

\* nearby_places_info applied to place_dict.
Format ==
    /\ description.how = "none"
    /\ description' =
          [how |-> "done", ok |-> nearby_places_info(place_dict).ok,
           val |-> nearby_places_info(place_dict).val]
    /\ UNCHANGED <<pc, file, saver, CACHE, frame, states, sites, count, out,
                   hist, typed, inp, ncalls, asked, place_dict, record,
                   rebuilt>>

NextFormat == Format

\* Line 165 then line 150, as get_site_instance does them on a miss and on
\* a later hit: the record's attribute mapping goes into a cache under the
\* site URL, the cache through the file, and json_to_NationalSite is applied
\* to the entry a process loads.
RoundTrip ==
    LET url == SiteUrl("/isro/")
        saved == json_dumps(SetItem(EmptyDict, url, InstanceDict(record)))
        entry == open_cache(saved).val.obj[url]
    IN  /\ rebuilt.how = "none"
        /\ rebuilt' =
              [how |-> "done", attrs |-> entry,
               site |-> json_to_NationalSite(entry)]
        /\ UNCHANGED <<pc, file, saver, CACHE, frame, states, sites, count,
                       out, hist, typed, inp, ncalls, asked, place_dict,
                       description, record>>

NextRecord == RoundTrip

\* One run of the module.
Spec == Init /\ [][Next]_vars

\* One run of the module that starts from an empty cache.
SpecFresh == InitFresh /\ [][Next]_vars

\* The formatter applied once to each field set.
SpecFormat == InitFormat /\ [][NextFormat]_vars

\* The record conversions applied once to each site record.
SpecRecord == InitRecord /\ [][NextRecord]_vars

\* Two importing processes on one cache file, calling the fetchers that
\* save once and save_cache itself.
NextShared ==
    \E p \in Procs :
        \/ Import(p, "lib")
        \/ LibBuild(p)
        \/ LibSite(p)
        \/ LibNearby(p)
        \/ LibSave(p)
        \/ Write(p)

\* Two runs of the module that share the cache file.
SpecShared == InitShared /\ [][NextShared]_vars

\* ------------------------------------------------------------ properties

\* Process p is between fetch calls (or has ended).
Idle(p) == pc[p] \notin {"off", "start", "loop", "write"}

\* Process p's last fetch call has ended and nothing has been done by p
\* since: the file is as that call left it.
JustEnded(p) == Idle(p) /\ ~resaved[p]

\* C1.  Idempotence of the four fetch functions: when a call is made again
\* right after it returned, with the same key and nothing else touching the
\* process's cache in between, the second call returns too, its result is
\* equal to the first call's, and it issues no network request.
C1_FetchIdempotent ==
    [][\A p \in Procs :
          repeat'[p] =>
             /\ last'[p].how = "returned"
             /\ last'[p].net = 0
             /\ last'[p].res = last[p].res]_vars

\* The site list of a state with two entries was fetched, the user went
\* back and asked for the same state again.
C1_Witness ==
    \E p \in Procs :
        /\ pc[p] = "sitePrompt"
        /\ repeat[p]
        /\ last[p].op = "get_sites_for_state"
        /\ Len(sites[p]) = 2

\* The line at the site prompt is none of what the claim lets through:
\* "back", "exit", or a number from 1 to the number of sites listed.
OffMenu(p) ==
    /\ inp[p] # BACK
    /\ inp[p] # EXIT
    /\ ~(/\ IsNumeric(inp[p])
         /\ PyInt(inp[p]).ok
         /\ 1 <= PyInt(inp[p]).val
         /\ PyInt(inp[p]).val <= Len(sites[p]))

\* C2.  At the site prompt every line that is not "back", "exit" or a number
\* from 1 to N is answered by the invalid-input message and the same
\* prompt: no nearby-places call, no failure, no change of level.
C2_SiteInputRejected ==
    [][\A p \in Procs :
          (pc[p] = "siteInput" /\ pc'[p] # "siteInput" /\ OffMenu(p)) =>
             /\ pc'[p] = "sitePrompt"
             /\ out'[p] = <<"[Error] Invalid input">>
             /\ ncalls' = ncalls
             /\ CACHE' = CACHE
             /\ file' = file]_vars

\* C3.  Write-through: in a run of one process, whenever a fetch function
\* has returned after a cache miss, the file holds the dump of the whole
\* in-memory mapping (until the caller itself saves something else).
C3_WriteThrough ==
    \A p \in Procs :
        (JustEnded(p) /\ last[p].how = "returned" /\ last[p].net > 0) =>
            file = FileObject(CACHE[p].obj)

\* A miss has just returned with three entries in the cache, all on disk.
C3_Witness ==
    \E p \in Procs :
        /\ JustEnded(p)
        /\ last[p].how = "returned"
        /\ last[p].net > 0
        /\ Cardinality(DOMAIN CACHE[p].obj) >= 3
        /\ file = FileObject(CACHE[p].obj)

\* C4.  Order preservation: what get_sites_for_state returns for a state
\* URL, on the miss and on every later hit in the process, is the sequence
\* the miss returned (when the miss returned: a miss whose save failed
\* returned nothing), and that sequence follows the page: its i-th record
\* is the record of the i-th listed entry.
C4_OrderPreserved ==
    \A p \in Procs :
        (/\ last[p].op = "get_sites_for_state"
         /\ last[p].how = "returned"
         /\ last[p].key \in DOMAIN listed[p]) =>
            LET m == listed[p][last[p].key] IN
            /\ m.how = "returned" => last[p].res = m.res
            /\ Len(last[p].res) = Len(m.hdrs)
            /\ \A i \in 1..Len(m.hdrs) :
                  InstanceDict(last[p].res[i]) =
                      CACHE[p].obj[SiteUrl(m.hdrs[i])]

\* A hit has returned two different records for a URL the process listed.
C4_Witness ==
    \E p \in Procs :
        /\ last[p].op = "get_sites_for_state"
        /\ last[p].how = "returned"
        /\ last[p].net = 0
        /\ last[p].key \in DOMAIN listed[p]
        /\ Len(last[p].res) = 2
        /\ last[p].res[1] # last[p].res[2]

\* A field of the record is absent: the key is missing or its value blank.
Absent(d, k) == k \notin DOMAIN d \/ Falsy(d[k])

Shown(d, k, placeholder) == IF Absent(d, k) THEN placeholder ELSE d[k]

\* C5.  Defensive formatting: whichever of category, address and city are
\* absent from a place record that has a name, nearby_places_info does not
\* fail and gives "{name} ({category}): {address}, {city}" with the
\* placeholder for each absent field.
C5_FormatsDefensively ==
    (description.how = "done" /\ ~Absent(place_dict, "name")) =>
        /\ description.ok
        /\ description.val =
              place_dict["name"] \o " ("
                 \o Shown(place_dict, "group_sic_code_name_ext", "no category")
                 \o "): " \o Shown(place_dict, "address", "no address")
                 \o ", " \o Shown(place_dict, "city", "no city")

\* C6.  Cache load resilience: loading never ends the process, and a file
\* that is missing or does not parse gives the empty mapping, with which
\* the process goes on.
C6_LoadResilient ==
    \A p \in Procs :
        /\ pc[p] = "crashed" => ncalls[p] > 0
        /\ (/\ pc[p] \in {"main", "lib"}
            /\ ncalls["p1"] + ncalls["p2"] = 0
            /\ file.kind \in {"missing", "invalid", "empty"}) =>
               CACHE[p] = PyDict(EmptyDict)

\* A process has loaded a file that is not JSON and stands before its first
\* call with an empty cache.
C6_Witness ==
    \E p \in Procs :
        /\ pc[p] \in {"main", "lib"}
        /\ ncalls["p1"] + ncalls["p2"] = 0
        /\ file.kind = "invalid"
        /\ CACHE[p] = PyDict(EmptyDict)

\* The state prompt's answer to a line it does not accept.
StateRejected(p) ==
    /\ pc'[p] = "statePrompt"
    /\ out'[p] = <<"[Error] Enter proper state name\n">>
    /\ CACHE' = CACHE
    /\ file' = file
    /\ ncalls' = ncalls

\* C7 as stated.  A line at the state prompt that is neither a key of the
\* state directory nor "exit" gets the invalid-state message and the state
\* prompt again, the cache, the file and the network untouched.
C7_AsStated ==
    [][\A p \in Procs :
          (/\ pc[p] = "stateInput" /\ pc'[p] # "stateInput"
           /\ typed[p] \notin DOMAIN states[p]
           /\ typed[p] # EXIT) => StateRejected(p)]_vars

\* C7 as amended: the same of a line whose lower-cased form is neither a
\* key of the state directory nor "exit".
C7_InvalidStateRejected ==
    [][\A p \in Procs :
          (/\ pc[p] = "stateInput" /\ pc'[p] # "stateInput"
           /\ Lower(typed[p]) \notin DOMAIN states[p]
           /\ Lower(typed[p]) # EXIT) => StateRejected(p)]_vars

\* The state prompt stands again after the invalid-state message.
C7_Witness ==
    \E p \in Procs :
        /\ pc[p] = "statePrompt"
        /\ out[p] = <<"[Error] Enter proper state name\n">>

\* C8.  Shell transitions: "exit" ends the process at either prompt; "back"
\* at the site prompt leads to the state prompt; after a valid state name
\* the next prompt, if the listing does not fail, is the site prompt.
C8_ShellTransitions ==
    [][\A p \in Procs :
          /\ (/\ pc[p] \in {"stateInput", "siteInput"}
              /\ pc'[p] # pc[p]
              /\ typed[p] = EXIT) => pc'[p] = "exited"
          /\ (/\ pc[p] = "siteInput" /\ pc'[p] # pc[p]
              /\ typed[p] = BACK) => pc'[p] = "statePrompt"
          /\ (/\ pc[p] = "stateInput" /\ pc'[p] # pc[p]
              /\ typed[p] \in DOMAIN states[p]) =>
                 pc'[p] \in {"sitePrompt", "loop", "crashed"}
          /\ (/\ pc[p] \in {"loop", "write"}
              /\ frame[p].caller = "main"
              /\ frame[p].op = "get_sites_for_state") =>
                 pc'[p] \in {"loop", "write", "sitePrompt", "crashed"}]_vars

\* The state prompt stands after "back": sites were listed and the last
\* handler printed nothing.
C8_Witness ==
    \E p \in Procs :
        /\ pc[p] = "statePrompt"
        /\ Len(sites[p]) > 0
        /\ out[p] = <<>>

\* C9.  All-or-nothing listing: when get_sites_for_state ends by an
\* exception raised in one of its get_site_instance calls, nothing is
\* stored under the state URL, in memory or in the file.
C9_AllOrNothing ==
    \A p \in Procs :
        (/\ JustEnded(p)
         /\ last[p].op = "get_sites_for_state"
         /\ last[p].how = "raised"
         /\ last[p].res[2] = "get_site_instance") =>
            /\ ~InCache(p, last[p].key)
            /\ last[p].key \notin DOMAIN file.obj

\* A listing has ended by the failure of its second site fetch, the first
\* having succeeded over the network.
C9_Witness ==
    \E p \in Procs :
        /\ JustEnded(p)
        /\ last[p].op = "get_sites_for_state"
        /\ last[p].how = "raised"
        /\ last[p].res[2] = "get_site_instance"
        /\ last[p].net = 3

\* The save_cache call of a fetcher's miss in process p ends in this step.
MissSaved(p) ==
    pc[p] = "write" /\ pc'[p] # "write" /\ frame[p].op # "save_cache"

\* C10 as stated.  Two processes share the file: whenever one has saved
\* on a miss, the file is the dump of that process's in-memory mapping.
C10_AsStated ==
    [][\A p \in Procs :
          MissSaved(p) => file' = FileObject(CACHE'[p].obj)]_vars

\* C10 as amended: a save leaves the dump of the saver's mapping and never
\* a merge, unless another process wrote the file between the saver's
\* open() and its write; then it may leave bytes that are not JSON.
C10_LastWriterWins ==
    [][\A p \in Procs :
          MissSaved(p) =>
             \/ file' = FileObject(CACHE'[p].obj)
             \/ file.kind # "empty" /\ file' = FileInvalid]_vars

\* The lost update: q returned from a miss, so its entry was in the file;
\* p, which loaded the file before that, saved later, and the file is p's
\* mapping, without q's entry.
C10_Witness ==
    \E p, q \in Procs :
        /\ p # q
        /\ saver = p
        /\ ~resaved[p] /\ ~resaved[q]
        /\ ncalls[p] = 1 /\ ncalls[q] = 1
        /\ pc[p] = "lib" /\ pc[q] = "lib"
        /\ last[q].how = "returned" /\ last[q].net > 0
        /\ file = FileObject(CACHE[p].obj)
        /\ last[q].key \notin DOMAIN file.obj

\* C11.  Round trip of a site record: its attribute mapping, as the cache
\* stores it, holds the five values under the five attribute names, and the
\* record rebuilt from that mapping has the same category, name, address,
\* zipcode and phone.
C11_RoundTrip ==
    rebuilt.how = "done" =>
        /\ DOMAIN rebuilt.attrs =
              {"category", "name", "address", "zipcode", "phone"}
        /\ Category(rebuilt.site) = Category(record)
        /\ Name(rebuilt.site) = Name(record)
        /\ Address(rebuilt.site) = Address(record)
        /\ Zipcode(rebuilt.site) = Zipcode(record)
        /\ Phone(rebuilt.site) = Phone(record)

\* A record whose neighbouring attributes differ has been converted and
\* rebuilt.
C11_Witness ==
    /\ rebuilt.how = "done"
    /\ Category(record) # Name(record)
    /\ Name(record) # Address(record)
    /\ Address(record) # Zipcode(record)
    /\ Zipcode(record) # Phone(record)
    /\ rebuilt.site = record

\* A call of get_nearby_places by p begins in this step.
NearbyBegins(p) == Len(asked'[p]) = Len(asked[p]) + 1

\* The nearby call that begins, and the one before it.
Newest(p) == asked'[p][Len(asked'[p])]
Previous(p) == asked[p][Len(asked[p])]

\* API requests p has issued for zip code z.
ApiCalls(p, z) ==
    Cardinality({i \in 1..Len(asked[p]) :
                    Zipcode(asked[p][i].site) = z /\ asked[p][i].api = 1})

ZipCodes == {"49931", "49913"}

\* The places of zip code z are in p's cache.
ZipCached(p, z) == CACHE[p].type = "dict" /\ HasKey(CACHE[p].obj, z)

\* C12 as stated.  Zip-code keying: a nearby fetch for a record whose zip
\* code an earlier fetch of the run had issues no API call and returns the
\* result of that fetch, and no zip code is ever requested from the API
\* twice in a run.
C12_AsStated ==
    [][\A p \in Procs :
          NearbyBegins(p) =>
             /\ (\E i \in 1..Len(asked[p]) :
                    Zipcode(asked[p][i].site) = Zipcode(Newest(p).site)) =>
                   /\ Newest(p).api = 0
                   /\ last'[p].how = "returned"
             /\ \A z \in ZipCodes :
                   Cardinality({i \in 1..Len(asked'[p]) :
                                  /\ Zipcode(asked'[p][i].site) = z
                                  /\ asked'[p][i].api = 1}) <= 1]_vars

\* C12 as amended.  Once a nearby fetch has returned, the fetch that follows
\* it for a record of the same zip code, the same record or another, issues
\* no API call and returns the very result of the first; a fetch for a zip
\* code in the cache issues no API call and returns the cached result with
\* the cache untouched; and the API is called only for a zip code that is
\* not in the cache.
C12_ZipKeyed ==
    [][\A p \in Procs :
          NearbyBegins(p) =>
             LET z == Zipcode(Newest(p).site) IN
             /\ (/\ last[p].op = "get_nearby_places"
                 /\ last[p].how = "returned"
                 /\ Zipcode(Previous(p).site) = z) =>
                    /\ Newest(p).api = 0
                    /\ last'[p].how = "returned"
                    /\ last'[p].res = last[p].res
             /\ ZipCached(p, z) =>
                    /\ Newest(p).api = 0
                    /\ last'[p].how = "returned"
                    /\ last'[p].res = CACHE[p].obj[z]
                    /\ CACHE' = CACHE
                    /\ file' = file
             /\ Newest(p).api = 1 => ~ZipCached(p, z)]_vars

\* Two different records of one zip code were looked up one after the
\* other: the first by an API call, the second from the cache.
C12_Witness ==
    \E p \in Procs :
        /\ Idle(p)
        /\ Len(asked[p]) = 2
        /\ asked[p][1].site # asked[p][2].site
        /\ Zipcode(asked[p][1].site) = Zipcode(asked[p][2].site)
        /\ asked[p][1].api = 1
        /\ asked[p][2].api = 0
        /\ last[p].how = "returned"
        /\ last[p].op = "get_nearby_places"
        /\ ApiCalls(p, Zipcode(asked[p][2].site)) = 1

\* The line at the site prompt is a number from 1 to the number of sites
\* listed.
OnMenu(p) ==
    /\ IsNumeric(inp[p])
    /\ PyInt(inp[p]).ok
    /\ 1 <= PyInt(inp[p]).val
    /\ PyInt(inp[p]).val <= Len(sites[p])

\* C13.  A number i from 1 to N at the site prompt looks up the places near
\* the i-th site listed, by that site's zip code, with one API call when the
\* zip code is not in the cache and none when it is; and when the lookup has
\* returned, the site prompt stands again.
C13_SiteLookup ==
    [][\A p \in Procs :
          /\ (pc[p] = "siteInput" /\ pc'[p] # "siteInput" /\ OnMenu(p)) =>
                LET site == sites[p][PyInt(inp[p]).val] IN
                /\ NearbyBegins(p)
                /\ Newest(p).site = site
                /\ Newest(p).api =
                      IF ZipCached(p, Zipcode(site)) THEN 0 ELSE 1
                /\ pc'[p] = "write" => frame'[p].key = Zipcode(site)
                /\ last'[p] # last[p] =>
                      /\ last'[p].key = Zipcode(site)
                      /\ last'[p].net = Newest(p).api
                      /\ last'[p].how = "returned" => pc'[p] = "sitePrompt"
          /\ (/\ pc[p] = "write" /\ pc'[p] # "write"
              /\ frame[p].caller = "main"
              /\ frame[p].op = "get_nearby_places") =>
                /\ last'[p].how = "returned"
                /\ last'[p].net = 1
                /\ pc'[p] = "sitePrompt"]_vars

\* C14.  Whatever the file holds, the value installed as CACHE is a
\* mapping, and no fetcher fails with a TypeError raised by the cache
\* operations (the only TypeError is json.dumps's, on a mapping that holds
\* a value it cannot serialize).
C14_CacheIsMapping ==
    \A p \in Procs :
        pc[p] \notin {"off", "start"} =>
            /\ CACHE[p].type = "dict"
            /\ (last[p].how = "raised" /\ last[p].res[1] = "TypeError") =>
                   ~Serializable(CACHE[p].obj)

\* C15.  A fetch call that fails on a cache miss leaves no entry under its
\* key, in the process's cache or in the file, so that the same call made
\* again is a miss again.
C15_FailedMissLeavesNoEntry ==
    \A p \in Procs :
        (JustEnded(p) /\ last[p].how = "raised" /\ last[p].net > 0) =>
            /\ ~HasKey(CACHE[p].obj, last[p].key)
            /\ ~HasKey(file.obj, last[p].key)

\* C16.  Within a run the in-memory cache only grows and is written once
\* per key: after the load no step removes a key or replaces the value
\* under a key, and a step that changes the cache adds one key that was
\* not there.
C16_GrowOnlyWriteOnce ==
    [][\A p \in Procs :
          pc[p] \notin {"off", "start"} =>
             /\ CACHE'[p].type = CACHE[p].type
             /\ SubDict(CACHE[p].obj, CACHE'[p].obj)
             /\ Cardinality(DOMAIN CACHE'[p].obj \ DOMAIN CACHE[p].obj) <= 1
             /\ CACHE'[p] # CACHE[p] =>
                    /\ pc[p] # "write"
                    /\ DOMAIN CACHE'[p].obj # DOMAIN CACHE[p].obj]_vars

\* A third call has returned from the cache, which holds the entries of
\* two misses of the run.
C16_Witness ==
    \E p \in Procs :
        /\ Idle(p)
        /\ ncalls[p] >= 3
        /\ last[p].how = "returned"
        /\ last[p].net = 0
        /\ HasKey(CACHE[p].obj, last[p].key)
        /\ saver = p
        /\ Cardinality(DOMAIN CACHE[p].obj) = 2

\* C17.  In a run that starts from an empty cache, whenever a state URL is
\* a key of the cache, its list is as long as the listing of the page, and
\* its i-th element is, attribute for attribute, the entry cached under the
\* site URL of the i-th listed href.
C17_ListMatchesEntries ==
    \A p \in Procs : \A u \in StateUrls :
        HasKey(CACHE[p].obj, u) =>
            LET hdrs == IF pc[p] = "write" /\ frame[p].key = u
                        THEN frame[p].hdrs
                        ELSE listed[p][u].hdrs
                list == CACHE[p].obj[u]
            IN  /\ Len(list) = Len(hdrs)
                /\ \A i \in 1..Len(hdrs) :
                      /\ HasKey(CACHE[p].obj, SiteUrl(hdrs[i]))
                      /\ \A a \in {"category", "name", "address", "zipcode",
                                    "phone"} :
                            list[i][a] = CACHE[p].obj[SiteUrl(hdrs[i])][a]

\* A state's list of two different sites is in the cache and on disk.
C17_Witness ==
    \E p \in Procs : \E u \in StateUrls :
        /\ Idle(p)
        /\ HasKey(CACHE[p].obj, u)
        /\ Len(CACHE[p].obj[u]) = 2
        /\ CACHE[p].obj[u][1] # CACHE[p].obj[u][2]
        /\ listed[p][u].hdrs[1] # listed[p][u].hdrs[2]
        /\ file = FileObject(CACHE[p].obj)

\* The site URLs of a listing: one per listed href, however often listed.
ListedUrls(hdrs) == {SiteUrl(hdrs[i]) : i \in 1..Len(hdrs)}

\* C18.  A cache miss of get_sites_for_state that returns has issued one
\* request for the state page and one for each distinct listed site URL
\* that was not in the cache when the call began, whatever put the others
\* there: an earlier call for the site, an earlier listing, or a listing
\* that ended part-way.
C18_RequestCount ==
    \A p \in Procs :
        (/\ Idle(p)
         /\ last[p].op = "get_sites_for_state"
         /\ last[p].how = "returned"
         /\ last[p].net > 0) =>
            LET m == listed[p][last[p].key] IN
            last[p].net = 1 + Cardinality(ListedUrls(m.hdrs) \ m.had)

\* The second of two calls of a run has listed a state with two sites by
\* two requests: the first call, for the same state, cached one site and
\* ended by the failure of the other.
C18_Witness ==
    \E p \in Procs :
        /\ Idle(p)
        /\ ncalls[p] = 2
        /\ ~HasKey(CACHE[p].obj, "states")
        /\ last[p].op = "get_sites_for_state"
        /\ last[p].how = "returned"
        /\ last[p].net = 2
        /\ listed[p][last[p].key].after = "raised"
        /\ Cardinality(ListedUrls(listed[p][last[p].key].hdrs)) = 2
        /\ Cardinality(listed[p][last[p].key].had) = 1

====
